---- MODULE Spec2Model ----
(***************************************************************************)
(* Business_Card_Demo: seven scripts that send a business-card image to a  *)
(* vision-language model and turn the model's reply into a contact record. *)
(*                                                                         *)
(* Text is modelled as a sequence of one-character strings, so that the    *)
(* Python string operations (strip, startswith, slicing, split, index) and *)
(* json.loads are computed character by character.  Fixed message literals *)
(* that the code only ever copies (error messages) are carried as a single *)
(* opaque token.                                                           *)
(***************************************************************************)
EXTENDS Integers, Sequences, FiniteSets, TLC

(***************************************************************************)
(* Python str operations                                                   *)
(***************************************************************************)

\* The backtick character (a TLA+ string literal cannot hold one, so the
\* character is named).
Backtick == "BACKTICK"

\* The backspace character, named for the same reason.
Backspace == "BACKSPACE"

\* str.strip() with no argument removes these (the model's texts hold no
\* other Unicode whitespace).
PyWhitespace == {" ", "\n", "\t", "\r"}

\* The characters json.decoder.WHITESPACE skips.
JsonWhitespace == {" ", "\t", "\n", "\r"}

\* Control characters py_scanstring rejects inside a string (strict=True).
ControlChars == {"\n", "\t", "\r", "\f", Backspace}

Digits == {"0", "1", "2", "3", "4", "5", "6", "7", "8", "9"}

\* s[i:j] of Python for 0 <= i, with j already resolved to an offset:
\* the characters at 1-based positions i+1 .. j.
Slice(s, i, j) ==
    IF j > Len(s) THEN SubSeq(s, i + 1, Len(s)) ELSE SubSeq(s, i + 1, j)

\* Number of leading characters of s that are in cs.
RECURSIVE LeadCount(_, _)
LeadCount(s, cs) ==
    IF s = <<>> \/ Head(s) \notin cs THEN 0 ELSE 1 + LeadCount(Tail(s), cs)

\* Number of trailing characters of s that are in cs.
RECURSIVE TrailCount(_, _)
TrailCount(s, cs) ==
    IF s = <<>> \/ s[Len(s)] \notin cs THEN 0
    ELSE 1 + TrailCount(SubSeq(s, 1, Len(s) - 1), cs)

\* str.strip(chars): drop leading and trailing characters that are in cs.
StripChars(s, cs) ==
    LET a == LeadCount(s, cs)
    IN  IF a = Len(s) THEN <<>>
        ELSE SubSeq(s, a + 1, Len(s) - TrailCount(s, cs))

\* str.strip()
Strip(s) == StripChars(s, PyWhitespace)

\* str.startswith(p)
StartsWith(s, p) == Len(s) >= Len(p) /\ SubSeq(s, 1, Len(p)) = p

\* str.find(p): 0-based offset of the first occurrence of p in s, -1 if none.
Find(s, p) ==
    LET hits == {i \in 0 .. (Len(s) - Len(p)) : SubSeq(s, i + 1, i + Len(p)) = p}
    IN  IF hits = {} THEN -1 ELSE CHOOSE i \in hits : \A j \in hits : i <= j

\* str.rfind(p): 0-based offset of the last occurrence of p in s, -1 if none.
RFind(s, p) ==
    LET hits == {i \in 0 .. (Len(s) - Len(p)) : SubSeq(s, i + 1, i + Len(p)) = p}
    IN  IF hits = {} THEN -1 ELSE CHOOSE i \in hits : \A j \in hits : i >= j

\* p in s
Contains(s, p) == Find(s, p) >= 0

\* s.split(p)[0]: the text before the first occurrence of p (all of s if none).
SplitFirst(s, p) ==
    IF Contains(s, p) THEN Slice(s, 0, Find(s, p)) ELSE s

\* The text after the first occurrence of p (requires p in s).
AfterFirst(s, p) == Slice(s, Find(s, p) + Len(p), Len(s))

\* s.split(p)[1] (requires p in s): the text between the first and the
\* second occurrence of p, or up to the end when there is no second one.
SplitSecond(s, p) == SplitFirst(AfterFirst(s, p), p)

\* str.lower() on the letters the REPL commands are made of.
LowerChar(c) ==
    CASE c = "E" -> "e" [] c = "X" -> "x" [] c = "I" -> "i" [] c = "T" -> "t"
      [] c = "Q" -> "q" [] c = "U" -> "u" [] c = "H" -> "h" [] c = "C" -> "c"
      [] c = "A" -> "a"
      [] OTHER -> c

Lower(s) == [i \in 1 .. Len(s) |-> LowerChar(s[i])]

(***************************************************************************)
(* JSON values (what json.loads returns)                                   *)
(*   None -> JNull, bool -> JBool, int -> JNum, str -> JStr, list -> JArr, *)
(*   dict -> JObj: the items in insertion order, keys unique.              *)
(***************************************************************************)
JNull == [t |-> "null"]
JBool(b) == [t |-> "bool", b |-> b]
JNum(n) == [t |-> "num", n |-> n]
JStr(s) == [t |-> "str", s |-> s]
JArr(a) == [t |-> "arr", a |-> a]
JObj(m) == [t |-> "obj", m |-> m]

IsDict(v) == v.t = "obj"

\* dict keys, in insertion order
Keys(m) == [i \in 1 .. Len(m) |-> m[i].k]

KeySet(m) == {m[i].k : i \in 1 .. Len(m)}

\* k in d
HasKey(m, k) == k \in KeySet(m)

\* d[k] (requires k in d)
Get(m, k) == m[CHOOSE i \in 1 .. Len(m) : m[i].k = k].v

\* d[k] = v: an existing key keeps its position, a new key goes last.
DictSet(m, k, v) ==
    IF HasKey(m, k)
    THEN [i \in 1 .. Len(m) |-> IF m[i].k = k THEN [k |-> k, v |-> v] ELSE m[i]]
    ELSE Append(m, [k |-> k, v |-> v])

\* Python's == on the values json.loads returns: dicts compare regardless
\* of insertion order.  Bounded by the nesting depth of the value.
RECURSIVE PyEq(_, _)
PyEq(x, y) ==
    IF x.t # y.t THEN FALSE
    ELSE CASE x.t = "obj" ->
                /\ KeySet(x.m) = KeySet(y.m)
                /\ \A k \in KeySet(x.m) : PyEq(Get(x.m, k), Get(y.m, k))
           [] x.t = "arr" ->
                /\ Len(x.a) = Len(y.a)
                /\ \A i \in 1 .. Len(x.a) : PyEq(x.a[i], y.a[i])
           [] OTHER -> x = y

(***************************************************************************)
(* json.loads: the recursive-descent scanner of json.decoder/json.scanner. *)
(* Positions are 1-based; a parse step returns [ok, val, end] with end the *)
(* position after the value.  The texts of the model contain no backslash, *)
(* '.', exponent, NaN or Infinity, so those branches of the scanner are    *)
(* not needed.                                                             *)
(***************************************************************************)
At(s, i) == IF i >= 1 /\ i <= Len(s) THEN s[i] ELSE "EOF"

\* s[i-1:].startswith(p), for the 1-based position i
MatchAt(s, i, p) == i + Len(p) - 1 <= Len(s) /\ SubSeq(s, i, i + Len(p) - 1) = p

Fail == [ok |-> FALSE, val |-> JNull, end |-> 0]

Ok(v, e) == [ok |-> TRUE, val |-> v, end |-> e]

\* WHITESPACE.match(s, i).end()
RECURSIVE SkipWS(_, _)
SkipWS(s, i) == IF At(s, i) \in JsonWhitespace THEN SkipWS(s, i + 1) ELSE i

HexDigits == Digits \cup {"a", "b", "c", "d", "e", "f",
                           "A", "B", "C", "D", "E", "F"}

HexLower(c) ==
    CASE c = "A" -> "a" [] c = "B" -> "b" [] c = "C" -> "c" [] c = "D" -> "d"
      [] c = "E" -> "e" [] c = "F" -> "f" [] OTHER -> c

\* BACKSLASH of json.decoder: the character a one-letter escape stands for.
SimpleEscapes == {"\"", "\\", "/", "b", "f", "n", "r", "t"}

Unescape(c) ==
    CASE c = "b" -> Backspace [] c = "f" -> "\f" [] c = "n" -> "\n"
      [] c = "r" -> "\r" [] c = "t" -> "\t" [] OTHER -> c

\* chr(int(esc, 16)) for the four hex digits of a \uXXXX escape.  The
\* replies of the model use the code points listed; any other one is
\* decoded to a single stand-in character.
CodePoint(esc) ==
    LET h == [j \in 1 .. Len(esc) |-> HexLower(esc[j])]
    IN  CASE h = <<"0", "0", "6", "0">> -> Backtick
          [] h = <<"0", "0", "7", "b">> -> "{"
          [] h = <<"0", "0", "7", "d">> -> "}"
          [] h = <<"0", "0", "4", "1">> -> "A"
          [] OTHER -> "CHR"

\* py_scanstring, from the position after the opening quote: the string
\* ends at the next unescaped quote; a control character before it is an
\* error, and so is a backslash not followed by a valid escape.
RECURSIVE ScanString(_, _, _)
ScanString(s, i, acc) ==
    LET c == At(s, i)
        e == At(s, i + 1)
    IN  IF c = "\"" THEN Ok(acc, i + 1)
        ELSE IF c = "EOF" \/ c \in ControlChars THEN Fail
        ELSE IF c # "\\" THEN ScanString(s, i + 1, Append(acc, c))
        ELSE IF e \in SimpleEscapes
        THEN ScanString(s, i + 2, Append(acc, Unescape(e)))
        ELSE IF /\ e = "u" /\ i + 5 <= Len(s)
                /\ \A j \in i + 2 .. i + 5 : s[j] \in HexDigits
        THEN ScanString(s, i + 6,
                        Append(acc, CodePoint(SubSeq(s, i + 2, i + 5))))
        ELSE Fail

\* End of the run of digits starting at i.
RECURSIVE DigitsEnd(_, _)
DigitsEnd(s, i) == IF At(s, i) \in Digits THEN DigitsEnd(s, i + 1) ELSE i

DigitVal(c) ==
    CASE c = "0" -> 0 [] c = "1" -> 1 [] c = "2" -> 2 [] c = "3" -> 3
      [] c = "4" -> 4 [] c = "5" -> 5 [] c = "6" -> 6 [] c = "7" -> 7
      [] c = "8" -> 8 [] c = "9" -> 9

\* int() of a run of digits
RECURSIVE IntOf(_)
IntOf(ds) ==
    IF ds = <<>> THEN 0
    ELSE 10 * IntOf(SubSeq(ds, 1, Len(ds) - 1)) + DigitVal(ds[Len(ds)])

\* NUMBER_RE.match: -?(0|[1-9]\d*)
ScanNumber(s, i) ==
    LET neg == At(s, i) = "-"
        b == IF neg THEN i + 1 ELSE i
        e == IF At(s, b) = "0" THEN b + 1 ELSE DigitsEnd(s, b)
    IN  IF At(s, b) \notin Digits THEN Fail
        ELSE LET n == IntOf(SubSeq(s, b, e - 1))
             IN  Ok(JNum(IF neg THEN 0 - n ELSE n), e)

RECURSIVE ScanOnce(_, _)
RECURSIVE ScanMembers(_, _, _)
RECURSIVE ScanItems(_, _, _)

\* JSONObject, from the position of a key's opening quote: key, ':', value,
\* then '}' or ',' and the next key.
ScanMembers(s, i, acc) ==
    IF At(s, i) # "\"" THEN Fail
    ELSE LET key == ScanString(s, i + 1, <<>>)
         IN  IF ~key.ok THEN Fail
             ELSE LET c == SkipWS(s, key.end)
                  IN  IF At(s, c) # ":" THEN Fail
                      ELSE LET val == ScanOnce(s, SkipWS(s, c + 1))
                           IN  IF ~val.ok THEN Fail
                               ELSE LET m == DictSet(acc, key.val, val.val)
                                        n == SkipWS(s, val.end)
                                    IN  IF At(s, n) = "}" THEN Ok(JObj(m), n + 1)
                                        ELSE IF At(s, n) = ","
                                        THEN ScanMembers(s, SkipWS(s, n + 1), m)
                                        ELSE Fail

\* JSONArray, from the position of an element: value, then ']' or ','.
ScanItems(s, i, acc) ==
    LET val == ScanOnce(s, i)
    IN  IF ~val.ok THEN Fail
        ELSE LET a == Append(acc, val.val)
                 n == SkipWS(s, val.end)
             IN  IF At(s, n) = "]" THEN Ok(JArr(a), n + 1)
                 ELSE IF At(s, n) = "," THEN ScanItems(s, SkipWS(s, n + 1), a)
                 ELSE Fail

\* scanner.py_make_scanner._scan_once
ScanOnce(s, i) ==
    LET c == At(s, i)
    IN  CASE c = "\"" ->
               LET r == ScanString(s, i + 1, <<>>)
               IN  IF r.ok THEN Ok(JStr(r.val), r.end) ELSE Fail
          [] c = "{" ->
               LET n == SkipWS(s, i + 1)
               IN  IF At(s, n) = "}" THEN Ok(JObj(<<>>), n + 1)
                   ELSE ScanMembers(s, n, <<>>)
          [] c = "[" ->
               LET n == SkipWS(s, i + 1)
               IN  IF At(s, n) = "]" THEN Ok(JArr(<<>>), n + 1)
                   ELSE ScanItems(s, n, <<>>)
          [] MatchAt(s, i, <<"n", "u", "l", "l">>) ->
               Ok(JNull, i + 4)
          [] MatchAt(s, i, <<"t", "r", "u", "e">>) ->
               Ok(JBool(TRUE), i + 4)
          [] MatchAt(s, i, <<"f", "a", "l", "s", "e">>) ->
               Ok(JBool(FALSE), i + 5)
          [] OTHER -> ScanNumber(s, i)

\* json.loads(s): [ok |-> TRUE, val |-> value], or ok = FALSE where Python
\* raises json.JSONDecodeError (no value, or extra data after it).
json_loads(s) ==
    LET r == ScanOnce(s, SkipWS(s, 1))
    IN  IF r.ok /\ SkipWS(s, r.end) = Len(s) + 1
        THEN [ok |-> TRUE, val |-> r.val]
        ELSE [ok |-> FALSE, val |-> JNull]

(***************************************************************************)
(* The repair pass of the four parse_business_card variants: from the      *)
(* content of the model's reply to the text handed to json.loads.          *)
(***************************************************************************)
Fence == <<Backtick, Backtick, Backtick>>

FenceJson == <<Backtick, Backtick, Backtick, "j", "s", "o", "n">>

\* s[7:-3]
DropFence(s) == Slice(s, 7, IF Len(s) >= 3 THEN Len(s) - 3 ELSE 0)

\* gradio_app, ollama_Gradio: strip, then cut a leading ```json and the
\* last three characters.
CleanJsonFence(content) ==
    LET json_text == Strip(content)
    IN  IF StartsWith(json_text, FenceJson) THEN Strip(DropFence(json_text))
        ELSE json_text

\* ollama_moondream: as above, and a text starting with a backtick loses
\* its leading and trailing backticks, spaces and newlines.
CleanAnyFence(content) ==
    LET json_text == Strip(content)
    IN  IF StartsWith(json_text, FenceJson) THEN Strip(DropFence(json_text))
        ELSE IF StartsWith(json_text, <<Backtick>>)
        THEN StripChars(json_text, {Backtick, " ", "\n"})
        ELSE json_text

\* new_gradio, "Clean up response": the text between the first ```json (or
\* else the first ```) and the next fence.
SplitFences(text) ==
    IF Contains(text, FenceJson)
    THEN Strip(SplitFirst(SplitSecond(text, FenceJson), Fence))
    ELSE IF Contains(text, Fence)
    THEN Strip(SplitFirst(SplitSecond(text, Fence), Fence))
    ELSE text

\* The span from the first '{' to the first '}' after it is looked for
\* from the left (index in place of rindex).
ExtractBraces_FirstClose(text) ==
    IF Contains(text, <<"{">>) /\ Contains(text, <<"}">>)
    THEN LET start == Find(text, <<"{">>)
             end == Find(text, <<"}">>) + 1
         IN  Slice(text, start, end)
    ELSE text

\* new_gradio, "Extract JSON": the span from the first '{' to the last '}'.
ExtractBraces(text) ==
    IF Contains(text, <<"{">>) /\ Contains(text, <<"}">>)
    THEN LET start == Find(text, <<"{">>)
             end == RFind(text, <<"}">>) + 1
         IN  Slice(text, start, end)
    ELSE text

CleanAndExtract(content) == ExtractBraces(SplitFences(Strip(content)))

Variants == {"gradio_app", "new_gradio", "ollama_Gradio", "ollama_moondream"}

\* The text each variant hands to json.loads (json_text / text).
CandidateText(variant, content) ==
    CASE variant = "gradio_app" -> CleanJsonFence(content)
      [] variant = "ollama_Gradio" -> CleanJsonFence(content)
      [] variant = "ollama_moondream" -> CleanAnyFence(content)
      [] variant = "new_gradio" -> CleanAndExtract(content)

\* The repair pass: the candidate text and what json.loads makes of it.
RepairPass(variant, content) ==
    LET text == CandidateText(variant, content)
        r == json_loads(text)
    IN  [ok |-> r.ok, parsed |-> r.val, text |-> text]

(***************************************************************************)
(* json.dumps with its default separators, for values whose strings hold   *)
(* ASCII characters.                                                       *)
(***************************************************************************)
DigitChar(d) ==
    CASE d = 0 -> "0" [] d = 1 -> "1" [] d = 2 -> "2" [] d = 3 -> "3"
      [] d = 4 -> "4" [] d = 5 -> "5" [] d = 6 -> "6" [] d = 7 -> "7"
      [] d = 8 -> "8" [] d = 9 -> "9"

\* str(n) for n >= 0
RECURSIVE NatStr(_)
NatStr(n) ==
    IF n < 10 THEN <<DigitChar(n)>> ELSE NatStr(n \div 10) \o <<DigitChar(n % 10)>>

IntStr(n) == IF n < 0 THEN <<"-">> \o NatStr(0 - n) ELSE NatStr(n)

\* ESCAPE_ASCII of json.encoder, for the characters the model's texts hold
EscapeChar(c) ==
    CASE c = "\"" -> <<"\\", "\"">>
      [] c = "\\" -> <<"\\", "\\">>
      [] c = "\n" -> <<"\\", "n">>
      [] c = "\r" -> <<"\\", "r">>
      [] c = "\t" -> <<"\\", "t">>
      [] c = "\f" -> <<"\\", "f">>
      [] c = Backspace -> <<"\\", "b">>
      [] OTHER -> <<c>>

RECURSIVE EscapeAll(_)
EscapeAll(s) ==
    IF s = <<>> THEN <<>> ELSE EscapeChar(Head(s)) \o EscapeAll(Tail(s))

\* py_encode_basestring_ascii
Quoted(s) == <<"\"">> \o EscapeAll(s) \o <<"\"">>

RECURSIVE json_dumps(_)
RECURSIVE DumpItems(_, _)
RECURSIVE DumpMembers(_, _)

\* The elements of a list from position i on, joined by ", ".
DumpItems(a, i) ==
    IF i > Len(a) THEN <<>>
    ELSE (IF i > 1 THEN <<",", " ">> ELSE <<>>)
         \o json_dumps(a[i]) \o DumpItems(a, i + 1)

\* The items of a dict from position i on: "key": value joined by ", ".
DumpMembers(m, i) ==
    IF i > Len(m) THEN <<>>
    ELSE (IF i > 1 THEN <<",", " ">> ELSE <<>>)
         \o Quoted(m[i].k) \o <<":", " ">> \o json_dumps(m[i].v)
         \o DumpMembers(m, i + 1)

json_dumps(v) ==
    CASE v.t = "null" -> <<"n", "u", "l", "l">>
      [] v.t = "bool" ->
           IF v.b THEN <<"t", "r", "u", "e">> ELSE <<"f", "a", "l", "s", "e">>
      [] v.t = "num" -> IntStr(v.n)
      [] v.t = "str" -> Quoted(v.s)
      [] v.t = "arr" -> <<"[">> \o DumpItems(v.a, 1) \o <<"]">>
      [] v.t = "obj" -> <<"{">> \o DumpMembers(v.m, 1) \o <<"}">>

(***************************************************************************)
(* The replies the inference backend can give to one call.                 *)
(*   raise    : the call raises (server down, engine error)                *)
(*   badshape : the call returns, but the response lacks the content text  *)
(*              (the subscript or .strip() raises inside the same try)     *)
(*   wrapped  : the content is pre + json.dumps(val) + post                *)
(*   raw      : the content is an arbitrary short text                     *)
(***************************************************************************)
MaxRawLen == 3

RawAlphabet == {"{", "}", "\"", "1", " ", Backtick}

RawTexts == UNION {[1 .. n -> RawAlphabet] : n \in 0 .. MaxRawLen}

K_name == <<"n", "a", "m", "e">>

K_title == <<"t", "i", "t", "l", "e">>

K_note == <<"n", "o", "t", "e">>

K_raw_ocr_text_ ==
    <<"_", "r", "a", "w", "_", "o", "c", "r", "_", "t", "e", "x", "t">>

\* {"name": "A"}
ObjNameA == JObj(<<[k |-> K_name, v |-> JStr(<<"A">>)]>>)

\* {"name": "Jane Doe", "title": null}
ObjJaneDoe ==
    JObj(<<[k |-> K_name, v |-> JStr(<<"J", "a", "n", "e", " ", "D", "o", "e">>)],
           [k |-> K_title, v |-> JNull]>>)

\* {"name": "A", "note": "uses a } brace"}
ObjBraceNote ==
    JObj(<<[k |-> K_name, v |-> JStr(<<"A">>)],
           [k |-> K_note,
            v |-> JStr(<<"u", "s", "e", "s", " ", "a", " ", "}", " ",
                         "b", "r", "a", "c", "e">>)]>>)

\* {"a": [1, {"b": null}], "x": true}
ObjNested ==
    JObj(<<[k |-> <<"a">>,
            v |-> JArr(<<JNum(1), JObj(<<[k |-> <<"b">>, v |-> JNull]>>)>>)],
           [k |-> <<"x">>, v |-> JBool(TRUE)]>>)

\* {"_raw_ocr_text": "x"}: the model itself produces the key new_gradio adds
ObjOcrKey == JObj(<<[k |-> K_raw_ocr_text_, v |-> JStr(<<"x">>)]>>)

\* {"a": "```"}: a fence inside a string value
ObjFenceInside == JObj(<<[k |-> <<"a">>, v |-> JStr(Fence)]>>)

ObjectValues ==
    {ObjNameA, JObj(<<>>), ObjJaneDoe, ObjBraceNote, ObjNested, ObjOcrKey,
     ObjFenceInside}

\* Valid JSON that is not an object: [1], "a", 1, null, [{"name": "A"}]
NonObjectValues ==
    {JArr(<<JNum(1)>>), JStr(<<"a">>), JNum(1), JNull, JArr(<<ObjNameA>>)}

ProseBefore ==
    <<"S", "u", "r", "e", "!", " ", "H", "e", "r", "e", " ", "i", "s", " ",
      "t", "h", "e", " ", "d", "a", "t", "a", ":", " ">>

ProseAfter ==
    <<" ", "L", "e", "t", " ", "m", "e", " ", "k", "n", "o", "w", " ", "i",
      "f", " ", "y", "o", "u", " ", "n", "e", "e", "d", " ", "m", "o", "r",
      "e", ".">>

\* What the model puts before the JSON text: nothing, blanks, an opening
\* fence (tagged json, untagged, tagged otherwise), prose, prose and a
\* fence, a lone bracket.
Pres ==
    {<<>>, <<" ", "\n">>, FenceJson, FenceJson \o <<"\n">>, Fence \o <<"\n">>,
     Fence, Fence \o <<"j", "s", "\n">>, ProseBefore,
     ProseBefore \o FenceJson \o <<"\n">>, <<"[">>}

\* What the model puts after it: nothing, a blank, a closing fence, prose,
\* a closing fence and prose, a lone bracket.
Posts ==
    {<<>>, <<"\n">>, Fence, <<"\n">> \o Fence, <<"\n">> \o Fence \o <<"\n">>,
     ProseAfter, <<"\n">> \o Fence \o ProseAfter, <<"]">>}

WrappedReplies ==
    {[kind |-> "wrapped", pre |-> p, val |-> v, post |-> q] :
        p \in Pres, v \in ObjectValues \cup NonObjectValues, q \in Posts}

RawReplies == {[kind |-> "raw", content |-> c] : c \in RawTexts}

FailedReplies == {[kind |-> "raise"], [kind |-> "badshape"]}

\* {"note": "\u0060\u0060\u0060"}: three backticks, written as escapes
EscapedFenceText ==
    <<"{", "\"", "n", "o", "t", "e", "\"", ":", " ", "\"",
      "\\", "u", "0", "0", "6", "0", "\\", "u", "0", "0", "6", "0",
      "\\", "u", "0", "0", "6", "0", "\"", "}">>

EscapedReplies == {[kind |-> "raw", content |-> EscapedFenceText]}

Replies ==
    FailedReplies \cup WrappedReplies \cup RawReplies \cup EscapedReplies

\* response[...]["content"] of a reply that has one
Content(reply) ==
    IF reply.kind = "wrapped"
    THEN reply.pre \o json_dumps(reply.val) \o reply.post
    ELSE reply.content

HasContent(reply) == reply.kind \in {"wrapped", "raw"}

(***************************************************************************)
(* What pytesseract.image_to_string does for the uploaded image.           *)
(***************************************************************************)
OcrErrorPrefix == <<"O", "C", "R", " ", "E", "r", "r", "o", "r">>

OcrCardText == <<"A", "\n", "1", "\n">>

OcrOutcomes ==
    {[kind |-> "raise"],
     [kind |-> "text", text |-> OcrCardText],
     [kind |-> "text", text |-> <<" ", "\n">>],
     [kind |-> "text", text |-> <<"A", " ">> \o OcrErrorPrefix]}

\* new_gradio.extract_text_from_image
extract_text_from_image(ocr) ==
    IF ocr.kind = "raise" THEN OcrErrorPrefix \o <<":", " ", "e">>
    ELSE Strip(ocr.text)

(***************************************************************************)
(* parse_business_card, the handler of one image upload, in its four       *)
(* variants.  The outcome records the returned value, the return statement *)
(* taken (site), and how many blocking calls went to the inference backend *)
(* (infCalls) and to the OCR engine (ocrCalls).                            *)
(***************************************************************************)
K_error == <<"e", "r", "r", "o", "r">>

K_raw_output == <<"r", "a", "w", "_", "o", "u", "t", "p", "u", "t">>

K_llm_output == <<"l", "l", "m", "_", "o", "u", "t", "p", "u", "t">>

K_raw_ocr_text == <<"r", "a", "w", "_", "o", "c", "r", "_", "t", "e", "x", "t">>

K_details == <<"d", "e", "t", "a", "i", "l", "s">>

K_parse_error ==
    <<"p", "a", "r", "s", "e", "_", "e", "r", "r", "o", "r">>

\* A message literal (or f-string) the code builds and nothing looks into.
Msg(m) == JStr(<<m>>)

\* {"error": m}
ErrorDict(m) == JObj(<<[k |-> K_error, v |-> Msg(m)]>>)

\* A local variable of the handler when it returns: not yet assigned, or
\* holding a value.
Unbound == [bound |-> FALSE]

Bound(v) == [bound |-> TRUE, val |-> v]

\* raised: an exception left the handler instead of a return.
\* text, parsed: the locals json_text / text and parsed_data / parsed.
Outcome(ret, site, inf, ocr) ==
    [ret |-> ret, site |-> site, infCalls |-> inf, ocrCalls |-> ocr,
     raised |-> FALSE, text |-> Unbound, parsed |-> Unbound]

\* The outcome of a return after the repair pass rp ran.
AfterRepair(o, rp) ==
    [o EXCEPT !.text = Bound(rp.text),
              !.parsed = IF rp.ok THEN Bound(rp.parsed) ELSE Unbound]

Images == {"none", "ok", "bad"}

\* The second try block with the diagnostic field attached to a successfully
\* parsed mapping as well.
ParseOrRawOutput_AlwaysRaw(variant, content, m) ==
    LET rp == RepairPass(variant, content)
    IN  IF rp.ok /\ IsDict(rp.parsed)
        THEN AfterRepair(
                 Outcome(JObj(DictSet(rp.parsed.m, K_raw_output, JStr(rp.text))),
                         "parsed", 1, 0), rp)
        ELSE IF rp.ok THEN AfterRepair(Outcome(rp.parsed, "parsed", 1, 0), rp)
        ELSE AfterRepair(
                 Outcome(JObj(<<[k |-> K_error, v |-> Msg(m)],
                                [k |-> K_raw_output, v |-> JStr(rp.text)]>>),
                         "parse_error", 1, 0), rp)

\* The second try block of gradio_app, ollama_Gradio and ollama_moondream.
ParseOrRawOutput(variant, content, m) ==
    LET rp == RepairPass(variant, content)
    IN  IF rp.ok THEN AfterRepair(Outcome(rp.parsed, "parsed", 1, 0), rp)
        ELSE AfterRepair(
                 Outcome(JObj(<<[k |-> K_error, v |-> Msg(m)],
                                [k |-> K_raw_output, v |-> JStr(rp.text)]>>),
                         "parse_error", 1, 0), rp)

gradio_app_parse_business_card(loaded, image, reply) ==
    IF ~loaded
    THEN Outcome(ErrorDict("VLM model is not loaded. Check server logs."),
                 "not_loaded", 0, 0)
    ELSE IF image = "none"
    THEN Outcome(ErrorDict("Please upload an image."), "no_image", 0, 0)
    ELSE IF image = "bad"
    THEN Outcome(ErrorDict("Failed to process image: {e}"), "image_error", 0, 0)
    ELSE IF ~HasContent(reply)
    THEN Outcome(ErrorDict("VLM inference failed: {e}"), "inference_error", 1, 0)
    ELSE ParseOrRawOutput("gradio_app", Content(reply),
                          "Failed to parse VLM output as JSON.")

\* ollama_Gradio with the chat call tried a second time when it fails.
ollama_Gradio_parse_business_card_Retry(image, reply) ==
    IF image = "none"
    THEN Outcome(ErrorDict("Please upload an image."), "no_image", 0, 0)
    ELSE IF image = "bad"
    THEN Outcome(ErrorDict("Failed to process image: {e}"), "image_error", 0, 0)
    ELSE IF ~HasContent(reply)
    THEN Outcome(ErrorDict("Ollama inference failed: {e}"),
                 "inference_error", 2, 0)
    ELSE ParseOrRawOutput("ollama_Gradio", Content(reply),
                          "Failed to parse model output as JSON.")

ollama_Gradio_parse_business_card(image, reply) ==
    IF image = "none"
    THEN Outcome(ErrorDict("Please upload an image."), "no_image", 0, 0)
    ELSE IF image = "bad"
    THEN Outcome(ErrorDict("Failed to process image: {e}"), "image_error", 0, 0)
    ELSE IF ~HasContent(reply)
    THEN Outcome(ErrorDict("Ollama inference failed: {e}"),
                 "inference_error", 1, 0)
    ELSE ParseOrRawOutput("ollama_Gradio", Content(reply),
                          "Failed to parse model output as JSON.")

ollama_moondream_parse_business_card(image, reply) ==
    IF image = "none"
    THEN Outcome(ErrorDict("Please upload an image."), "no_image", 0, 0)
    ELSE IF image = "bad"
    THEN Outcome(ErrorDict("Failed to process image: {e}"), "image_error", 0, 0)
    ELSE IF ~HasContent(reply)
    THEN Outcome(ErrorDict("Ollama inference failed: {e}. Is the Ollama server running?"),
                 "inference_error", 1, 0)
    ELSE ParseOrRawOutput("ollama_moondream", Content(reply),
                          "Failed to parse VLM output as JSON.")

\* The try block with the body of the JSONDecodeError clause as the only
\* handler: a failing call reaches it before text is assigned, and reading
\* text raises UnboundLocalError out of the handler.
StructureWithLLM_OneHandler(ocr_text, reply) ==
    IF ~HasContent(reply)
    THEN [Outcome(JNull, "parse_error", 1, 1) EXCEPT !.raised = TRUE]
    ELSE LET rp == RepairPass("new_gradio", Content(reply))
         IN  IF ~rp.ok
             THEN \* except json.JSONDecodeError
                  AfterRepair(
                      Outcome(JObj(<<[k |-> K_error,
                                      v |-> Msg("Failed to parse JSON from LLM")],
                                     [k |-> K_raw_ocr_text, v |-> JStr(ocr_text)],
                                     [k |-> K_llm_output, v |-> JStr(rp.text)],
                                     [k |-> K_parse_error, v |-> Msg("{str(e)}")]>>),
                              "parse_error", 1, 1), rp)
             ELSE IF ~IsDict(rp.parsed)
             THEN \* parsed["_raw_ocr_text"] = ... raises TypeError on a
                  \* list, str, int, bool or None: except Exception
                  AfterRepair(
                      Outcome(JObj(<<[k |-> K_error,
                                      v |-> Msg("LLM structuring failed: {e}")],
                                     [k |-> K_raw_ocr_text, v |-> JStr(ocr_text)]>>),
                              "structuring_error", 1, 1), rp)
             ELSE AfterRepair(
                      Outcome(JObj(DictSet(rp.parsed.m, K_raw_ocr_text_,
                                           JStr(ocr_text))),
                              "parsed", 1, 1), rp)

\* new_gradio: the try block around the LLM call, the repair pass and the
\* "_raw_ocr_text" assignment, with its two except clauses.
StructureWithLLM(ocr_text, reply) ==
    IF ~HasContent(reply)
    THEN Outcome(JObj(<<[k |-> K_error, v |-> Msg("LLM structuring failed: {e}")],
                        [k |-> K_raw_ocr_text, v |-> JStr(ocr_text)]>>),
                 "structuring_error", 1, 1)
    ELSE LET rp == RepairPass("new_gradio", Content(reply))
         IN  IF ~rp.ok
             THEN \* except json.JSONDecodeError
                  AfterRepair(
                      Outcome(JObj(<<[k |-> K_error,
                                      v |-> Msg("Failed to parse JSON from LLM")],
                                     [k |-> K_raw_ocr_text, v |-> JStr(ocr_text)],
                                     [k |-> K_llm_output, v |-> JStr(rp.text)],
                                     [k |-> K_parse_error, v |-> Msg("{str(e)}")]>>),
                              "parse_error", 1, 1), rp)
             ELSE IF ~IsDict(rp.parsed)
             THEN \* parsed["_raw_ocr_text"] = ... raises TypeError on a
                  \* list, str, int, bool or None: except Exception
                  AfterRepair(
                      Outcome(JObj(<<[k |-> K_error,
                                      v |-> Msg("LLM structuring failed: {e}")],
                                     [k |-> K_raw_ocr_text, v |-> JStr(ocr_text)]>>),
                              "structuring_error", 1, 1), rp)
             ELSE AfterRepair(
                      Outcome(JObj(DictSet(rp.parsed.m, K_raw_ocr_text_,
                                           JStr(ocr_text))),
                              "parsed", 1, 1), rp)

\* new_gradio without the "if llm is None" fallback: the call is attempted
\* on None and its AttributeError lands in except Exception.
new_gradio_parse_business_card_NoFallback(loaded, image, ocr, reply) ==
    IF image = "none"
    THEN Outcome(ErrorDict("Please upload an image."), "no_image", 0, 0)
    ELSE LET ocr_text == extract_text_from_image(ocr)
         IN  IF ocr_text = <<>> \/ Contains(ocr_text, OcrErrorPrefix)
             THEN Outcome(JObj(<<[k |-> K_error,
                                  v |-> Msg("Failed to extract text from image.")],
                                 [k |-> K_details, v |-> JStr(ocr_text)]>>),
                          "ocr_error", 0, 1)
             ELSE StructureWithLLM(ocr_text,
                                   IF loaded THEN reply ELSE [kind |-> "raise"])

new_gradio_parse_business_card(loaded, image, ocr, reply) ==
    IF image = "none"
    THEN Outcome(ErrorDict("Please upload an image."), "no_image", 0, 0)
    ELSE LET ocr_text == extract_text_from_image(ocr)
         IN  IF ocr_text = <<>> \/ Contains(ocr_text, OcrErrorPrefix)
             THEN Outcome(JObj(<<[k |-> K_error,
                                  v |-> Msg("Failed to extract text from image.")],
                                 [k |-> K_details, v |-> JStr(ocr_text)]>>),
                          "ocr_error", 0, 1)
             ELSE IF ~loaded
             THEN Outcome(JObj(<<[k |-> K_error,
                                  v |-> Msg("LLM not loaded - returning raw OCR text")],
                                 [k |-> K_raw_ocr_text, v |-> JStr(ocr_text)]>>),
                          "not_loaded", 0, 1)
             ELSE StructureWithLLM(ocr_text, reply)

parse_business_card(variant, loaded, image, w) ==
    CASE variant = "gradio_app" ->
           gradio_app_parse_business_card(loaded, image, w.reply)
      [] variant = "ollama_Gradio" ->
           ollama_Gradio_parse_business_card(image, w.reply)
      [] variant = "ollama_moondream" ->
           ollama_moondream_parse_business_card(image, w.reply)
      [] variant = "new_gradio" ->
           new_gradio_parse_business_card(loaded, image, w.ocr, w.reply)

(***************************************************************************)
(* chat_mode of llama_cli and moondream_cli: one iteration of the REPL     *)
(* loop.                                                                   *)
(***************************************************************************)
CLIs == {"llama_cli", "moondream_cli"}

Separator == <<" ", "-", " ">>

\* ['exit', 'quit', 'q']
ExitCommands == {<<"e", "x", "i", "t">>, <<"q", "u", "i", "t">>, <<"q">>}

\* The comparison without .lower()
IsExitCommand_CaseSensitive(user_input) == user_input \in ExitCommands

IsExitCommand(user_input) == Lower(user_input) \in ExitCommands

\* llama_cli: user_input.split(" - ", 1), at the first separator;
\* moondream_cli: user_input.rsplit(" - ", 1), at the last one.
SplitAt(cli, user_input) ==
    IF cli = "llama_cli" THEN Find(user_input, Separator)
    ELSE RFind(user_input, Separator)

\* prompt and potential_path of a line ("prompt - path"); the path is <<>>
\* when the line has no separator.
ParseLine(cli, user_input) ==
    IF Contains(user_input, Separator)
    THEN LET i == SplitAt(cli, user_input)
         IN  [sep |-> TRUE,
              prompt |-> Strip(Slice(user_input, 0, i)),
              path |-> Strip(Slice(user_input, i + 3, Len(user_input)))]
    ELSE [sep |-> FALSE, prompt |-> user_input, path |-> <<>>]

UserMessage(prompt, image_path) ==
    [role |-> "user", text |-> prompt, image |-> image_path]

AssistantMessage(full_response) ==
    [role |-> "assistant", text |-> full_response, image |-> <<>>]

\* The loop with "full_response = content" in place of "+=": each
\* fragment replaces the text gathered so far.
RECURSIVE ReadStream_LastOnly(_, _, _, _)
ReadStream_LastOnly(cli, backend, i, full_response) ==
    IF i > Len(backend.chunks)
    THEN [status |-> backend.end, full |-> full_response]
    ELSE LET chunk == backend.chunks[i]
         IN  IF chunk.kind = "nochoices"
             THEN ReadStream_LastOnly(cli, backend, i + 1, full_response)
             ELSE IF chunk.kind = "emptychoices"
             THEN IF cli = "llama_cli"
                  THEN [status |-> "exception", full |-> full_response]
                  ELSE ReadStream_LastOnly(cli, backend, i + 1, full_response)
             ELSE IF chunk.content # <<>>
             THEN ReadStream_LastOnly(cli, backend, i + 1, chunk.content)
             ELSE ReadStream_LastOnly(cli, backend, i + 1, full_response)

\* The loop over the stream's chunks, from chunk i on, with the text
\* gathered so far: [status, full] with status "done" when the stream was
\* read to its end, "exception" or "interrupt" when reading it raised.
\*   nochoices    : a chunk without "choices"
\*   emptychoices : "choices" is an empty list; llama_cli indexes it
\*                  (IndexError), moondream_cli checks len(...) > 0
\*   delta        : a chunk whose delta has this content ("" when absent)
RECURSIVE ReadStream(_, _, _, _)
ReadStream(cli, backend, i, full_response) ==
    IF i > Len(backend.chunks)
    THEN [status |-> backend.end, full |-> full_response]
    ELSE LET chunk == backend.chunks[i]
         IN  IF chunk.kind = "nochoices"
             THEN ReadStream(cli, backend, i + 1, full_response)
             ELSE IF chunk.kind = "emptychoices"
             THEN IF cli = "llama_cli"
                  THEN [status |-> "exception", full |-> full_response]
                  ELSE ReadStream(cli, backend, i + 1, full_response)
             ELSE IF chunk.content # <<>>
             THEN ReadStream(cli, backend, i + 1, full_response \o chunk.content)
             ELSE ReadStream(cli, backend, i + 1, full_response)

\* messages is the list handed to create_chat_completion (empty when no
\* call is made).
Turn(outcome, inf, in, pl, messages) ==
    [outcome |-> outcome, infCalls |-> inf, event |-> in.event,
     line |-> in.line, prompt |-> pl.prompt, path |-> pl.path,
     messages |-> messages,
     backend |-> IF inf = 0 THEN [call |-> "unused"] ELSE in.backend]

\* The history cut to its last two entries before the call.
AppendMessage_Window(conversation, message) ==
    LET c == Append(conversation, message)
    IN  IF Len(c) > 2 THEN SubSeq(c, Len(c) - 1, Len(c)) ELSE c

\* conversation.append(message)
AppendMessage(conversation, message) == Append(conversation, message)

NoLine == [sep |-> FALSE, prompt |-> <<>>, path |-> <<>>]

\* The loop body with the user message appended before the image is
\* loaded: a line whose image fails to load leaves its message behind.
chat_turn_AppendFirst(cli, conversation, in) ==
    IF in.event = "interrupt"
    THEN [conversation |-> conversation, running |-> FALSE,
          turn |-> Turn("interrupted", 0, in, NoLine, <<>>)]
    ELSE IF in.event = "eof"
    THEN \* EOFError is an Exception: printed, and the loop goes on
         [conversation |-> conversation, running |-> TRUE,
          turn |-> Turn("error", 0, in, NoLine, <<>>)]
    ELSE LET user_input == Strip(in.line)
             pl == ParseLine(cli, user_input)
             image_path == IF pl.sep /\ in.exists THEN pl.path ELSE <<>>
         IN  IF user_input = <<>>
             THEN [conversation |-> conversation, running |-> TRUE,
                   turn |-> Turn("skipped_empty", 0, in, NoLine, <<>>)]
             ELSE IF IsExitCommand(user_input)
             THEN [conversation |-> conversation, running |-> FALSE,
                   turn |-> Turn("exit", 0, in, NoLine, <<>>)]
             ELSE IF image_path # <<>> /\ ~in.loads
             THEN [conversation |->
                      Append(conversation, UserMessage(pl.prompt, <<>>)),
                   running |-> TRUE,
                   turn |-> Turn("skipped_image", 0, in, pl, <<>>)]
             ELSE LET sent == AppendMessage(conversation,
                                       UserMessage(pl.prompt, image_path))
                  IN  IF in.backend.call = "raise"
                      THEN [conversation |-> sent, running |-> TRUE,
                            turn |-> Turn("error", 1, in, pl, sent)]
                      ELSE IF in.backend.call = "interrupt"
                      THEN [conversation |-> sent, running |-> FALSE,
                            turn |-> Turn("interrupted", 1, in, pl, sent)]
                      ELSE LET r == ReadStream(cli, in.backend, 1, <<>>)
                           IN  IF r.status = "done"
                               THEN [conversation |->
                                        AppendMessage(sent, AssistantMessage(r.full)),
                                     running |-> TRUE,
                                     turn |-> Turn("completed", 1, in, pl, sent)]
                               ELSE IF r.status = "exception"
                               THEN [conversation |-> sent, running |-> TRUE,
                                     turn |-> Turn("error", 1, in, pl, sent)]
                               ELSE [conversation |-> sent, running |-> FALSE,
                                     turn |-> Turn("interrupted", 1, in, pl, sent)]

\* One pass through the body of "while True" in chat_mode.
\*   in.event  : "line" (input() returns in.line), "eof" (it raises
\*               EOFError), "interrupt" (it raises KeyboardInterrupt)
\*   in.exists : os.path.exists(potential_path)
\*   in.loads  : the image file opens and encodes
\*   in.backend: [call |-> "raise" | "interrupt"] or
\*               [call |-> "stream", chunks, end]
\* Returns the conversation, whether the loop goes on, and a summary.
chat_turn(cli, conversation, in) ==
    IF in.event = "interrupt"
    THEN [conversation |-> conversation, running |-> FALSE,
          turn |-> Turn("interrupted", 0, in, NoLine, <<>>)]
    ELSE IF in.event = "eof"
    THEN \* EOFError is an Exception: printed, and the loop goes on
         [conversation |-> conversation, running |-> TRUE,
          turn |-> Turn("error", 0, in, NoLine, <<>>)]
    ELSE LET user_input == Strip(in.line)
             pl == ParseLine(cli, user_input)
             image_path == IF pl.sep /\ in.exists THEN pl.path ELSE <<>>
         IN  IF user_input = <<>>
             THEN [conversation |-> conversation, running |-> TRUE,
                   turn |-> Turn("skipped_empty", 0, in, NoLine, <<>>)]
             ELSE IF IsExitCommand(user_input)
             THEN [conversation |-> conversation, running |-> FALSE,
                   turn |-> Turn("exit", 0, in, NoLine, <<>>)]
             ELSE IF image_path # <<>> /\ ~in.loads
             THEN [conversation |-> conversation, running |-> TRUE,
                   turn |-> Turn("skipped_image", 0, in, pl, <<>>)]
             ELSE LET sent == AppendMessage(conversation,
                                       UserMessage(pl.prompt, image_path))
                  IN  IF in.backend.call = "raise"
                      THEN [conversation |-> sent, running |-> TRUE,
                            turn |-> Turn("error", 1, in, pl, sent)]
                      ELSE IF in.backend.call = "interrupt"
                      THEN [conversation |-> sent, running |-> FALSE,
                            turn |-> Turn("interrupted", 1, in, pl, sent)]
                      ELSE LET r == ReadStream(cli, in.backend, 1, <<>>)
                           IN  IF r.status = "done"
                               THEN [conversation |->
                                        AppendMessage(sent, AssistantMessage(r.full)),
                                     running |-> TRUE,
                                     turn |-> Turn("completed", 1, in, pl, sent)]
                               ELSE IF r.status = "exception"
                               THEN [conversation |-> sent, running |-> TRUE,
                                     turn |-> Turn("error", 1, in, pl, sent)]
                               ELSE [conversation |-> sent, running |-> FALSE,
                                     turn |-> Turn("interrupted", 1, in, pl, sent)]

(***************************************************************************)
(* process_query and main of the two CLIs (one-shot mode).                 *)
(***************************************************************************)
\* process_query: the image is loaded first (a failure returns without a
\* call), then one streamed call inside try/except Exception.  A
\* KeyboardInterrupt is not an Exception and leaves the function.
process_query(cli, image_path, loads, backend) ==
    IF image_path # <<>> /\ ~loads
    THEN Outcome(JNull, "image_error", 0, 0)
    ELSE IF backend.call = "raise"
    THEN Outcome(JNull, "inference_error", 1, 0)
    ELSE IF backend.call = "interrupt"
    THEN [Outcome(JNull, "interrupted", 1, 0) EXCEPT !.raised = TRUE]
    ELSE LET r == ReadStream(cli, backend, 1, <<>>)
         IN  IF r.status = "done" THEN Outcome(JStr(r.full), "completed", 1, 0)
             ELSE IF r.status = "exception"
             THEN Outcome(JNull, "inference_error", 1, 0)
             ELSE [Outcome(JNull, "interrupted", 1, 0) EXCEPT !.raised = TRUE]

ChatCommand == <<"c", "h", "a", "t">>

\* main(): what the process does with its command line.
\*   usage   : no argument, exit code 1
\*   chat    : chat_mode()
\*   query   : process_query(prompt, image_path)
\*   missing : moondream_cli only, the named file does not exist: exit code 1
main(cli, argv, exists) ==
    IF argv = <<>> THEN [do |-> "usage"]
    ELSE IF Lower(argv) = ChatCommand THEN [do |-> "chat"]
    ELSE LET pl == ParseLine(cli, argv)
         IN  IF pl.sep /\ ~exists /\ cli = "moondream_cli"
             THEN [do |-> "missing"]
             ELSE [do |-> "query", prompt |-> pl.prompt,
                   image_path |-> IF pl.sep /\ exists THEN pl.path ELSE <<>>]

(***************************************************************************)
(* ollama2.py: a script run from top to bottom.                            *)
(*   reply.kind "raise"      : requests.post raises (server unreachable)   *)
(*              "http_error" : the status code is not 200                  *)
(*              "badshape"   : response.json() raises                      *)
(***************************************************************************)
Raised(site, inf) == [Outcome(JNull, site, inf, 0) EXCEPT !.raised = TRUE]

ollama2_script(exists, reply) ==
    IF ~exists THEN Raised("image_missing", 0)
    ELSE IF reply.kind = "raise" THEN Raised("post_raised", 1)
    ELSE IF reply.kind = "http_error" THEN Outcome(JNull, "request_failed", 1, 0)
    ELSE IF reply.kind = "badshape" THEN Raised("json_raised", 1)
    ELSE LET r == json_loads(Strip(Content(reply)))
         IN  IF r.ok THEN Outcome(r.val, "parsed", 1, 0)
             ELSE Outcome(JNull, "parse_error", 1, 0)

(***************************************************************************)
(* The world a script runs in: what is installed, what the command line    *)
(* is, and how the engines answer.                                         *)
(***************************************************************************)
Scripts == Variants \cup CLIs \cup {"ollama2"}

Delta(content) == [kind |-> "delta", content |-> content]

\* Answers of llm.create_chat_completion(..., stream=True)
StreamHey ==
    [call |-> "stream", end |-> "done",
     chunks |-> <<Delta(<<"H", "e">>), Delta(<<>>), [kind |-> "nochoices"],
                  Delta(<<"y">>)>>]

StreamEmptyChoices ==
    [call |-> "stream", end |-> "done",
     chunks |-> <<Delta(<<"a">>), [kind |-> "emptychoices"], Delta(<<"b">>)>>]

StreamBroken ==
    [call |-> "stream", end |-> "exception", chunks |-> <<Delta(<<"H", "e">>)>>]

StreamInterrupted ==
    [call |-> "stream", end |-> "interrupt", chunks |-> <<Delta(<<"H", "e">>)>>]

ChatBackends ==
    {[call |-> "raise"], StreamHey, StreamEmptyChoices, StreamBroken,
     StreamInterrupted}

L_hi == <<"h", "i">>

\* "quit hi": begins with a command, is not one
L_quit_hi == <<"q", "u", "i", "t", " ", "h", "i">>

\* "hi - c": a prompt and the path c
L_hi_c == <<"h", "i", " ", "-", " ", "c">>

\* "a - b - c": two separators
L_a_b_c == <<"a", " ", "-", " ", "b", " ", "-", " ", "c">>

\* The lines typed at the >>> prompt
Lines ==
    {<<" ", " ">>, L_quit_hi, L_hi_c,
     <<" ", "E", "X", "I", "T", " ">>, <<"Q", "u", "i", "t">>, <<"q">>}

\* sys.argv[1:] joined by spaces
Argvs == {<<>>, ChatCommand, L_hi, L_hi_c, L_a_b_c}

BaseWorld ==
    [files |-> TRUE, loadOk |-> TRUE, tesseract |-> TRUE, server |-> TRUE,
     reply |-> [kind |-> "wrapped", pre |-> <<>>, val |-> ObjNameA, post |-> <<>>],
     ocr |-> [kind |-> "text", text |-> OcrCardText],
     argv |-> ChatCommand, exists |-> TRUE, loads |-> TRUE,
     backend |-> StreamHey]

\* A few replies, for the worlds that vary something else.
SomeReplies ==
    FailedReplies
    \cup {[kind |-> "wrapped", pre |-> <<>>, val |-> v, post |-> <<>>] :
             v \in {ObjNameA, JArr(<<JNum(1)>>)}}
    \cup {[kind |-> "raw", content |-> <<"{">>]}

Worlds(s) ==
    CASE s = "gradio_app" ->
           {[BaseWorld EXCEPT !.reply = r] : r \in Replies}
           \cup {[BaseWorld EXCEPT !.files = f, !.loadOk = l] :
                    f \in BOOLEAN, l \in BOOLEAN}
      [] s = "new_gradio" ->
           {[BaseWorld EXCEPT !.reply = r] : r \in Replies}
           \cup {[BaseWorld EXCEPT !.files = f, !.loadOk = l, !.tesseract = t,
                                   !.ocr = o, !.reply = r] :
                    f \in BOOLEAN, l \in BOOLEAN, t \in BOOLEAN,
                    o \in OcrOutcomes, r \in SomeReplies}
      [] s = "ollama_Gradio" ->
           {[BaseWorld EXCEPT !.reply = r] : r \in Replies}
      [] s = "ollama_moondream" ->
           {[BaseWorld EXCEPT !.reply = r] : r \in Replies}
           \cup {[BaseWorld EXCEPT !.server = FALSE]}
      [] s = "ollama2" ->
           {[BaseWorld EXCEPT !.exists = e, !.reply = r] :
               e \in BOOLEAN, r \in SomeReplies \cup {[kind |-> "http_error"]}}
      [] s \in CLIs ->
           {[BaseWorld EXCEPT !.files = f, !.loadOk = l, !.argv = a] :
               f \in BOOLEAN, l \in BOOLEAN, a \in {<<>>, ChatCommand, L_hi}}
           \cup {[BaseWorld EXCEPT !.argv = a, !.exists = e, !.loads = l,
                                   !.backend = b] :
                    a \in Argvs, e \in BOOLEAN, l \in BOOLEAN,
                    b \in ChatBackends}

(***************************************************************************)
(* State                                                                   *)
(***************************************************************************)
VARIABLES
    script,        \* which of the seven scripts this process runs
    world,         \* its environment, fixed for the run
    phase,         \* "boot", "main", "serving", "repl" or "exited"
    exitCode,      \* the exit code once exited, -1 before
    llm,           \* the module-level llm (and chat_handler) is not None
    upload,        \* the image of the last upload handled
    result,        \* the outcome of the last upload, query or script run
    conversation,  \* chat_mode's conversation list
    turn,          \* summary of the last REPL iteration
    turns          \* REPL iterations so far

vars ==
    <<script, world, phase, exitCode, llm, upload, result, conversation,
      turn, turns>>

\* REPL iterations explored
MaxTurns == 2

NoResult == Outcome(JNull, "none", 0, 0)

NoTurn ==
    [outcome |-> "none", infCalls |-> 0, event |-> "none", line |-> <<>>,
     prompt |-> <<>>, path |-> <<>>, messages |-> <<>>,
     backend |-> [call |-> "unused"]]

Init ==
    /\ script \in Scripts
    /\ world \in Worlds(script)
    /\ phase = "boot"
    /\ exitCode = -1
    /\ llm = FALSE
    /\ upload = "none"
    /\ result = NoResult
    /\ conversation = <<>>
    /\ turn = NoTurn
    /\ turns = 0

(***************************************************************************)
(* Actions                                                                 *)
(***************************************************************************)
\* The model file(s) exist and Llama(...) does not raise.
ModelLoads == world.files /\ world.loadOk

Exit(code) == phase' = "exited" /\ exitCode' = code

\* gradio_app.py, module level and the __main__ block: without the model the
\* form is not launched and the script runs off its end.
gradio_app_main ==
    /\ script = "gradio_app" /\ phase = "boot"
    /\ llm' = ModelLoads
    /\ IF ModelLoads THEN phase' = "serving" /\ exitCode' = exitCode
       ELSE Exit(0)
    /\ UNCHANGED <<script, world, upload, result, conversation, turn, turns>>

\* new_gradio.py: a missing model or a missing tesseract is printed, and the
\* form is launched all the same.
new_gradio_main ==
    /\ script = "new_gradio" /\ phase = "boot"
    /\ llm' = ModelLoads
    /\ phase' = "serving"
    /\ UNCHANGED <<script, world, exitCode, upload, result, conversation,
                   turn, turns>>

\* ollama_Gradio.py: nothing is checked before the launch.
ollama_Gradio_main ==
    /\ script = "ollama_Gradio" /\ phase = "boot"
    /\ phase' = "serving"
    /\ UNCHANGED <<script, world, exitCode, llm, upload, result, conversation,
                   turn, turns>>

\* ollama_moondream.py: launched when check_model_availability() is true.
ollama_moondream_main ==
    /\ script = "ollama_moondream" /\ phase = "boot"
    /\ IF world.server THEN phase' = "serving" /\ exitCode' = exitCode
       ELSE Exit(0)
    /\ UNCHANGED <<script, world, llm, upload, result, conversation, turn,
                   turns>>

\* One upload through the form: parse_business_card(pil_image).
Upload ==
    /\ script \in Variants /\ phase = "serving"
    /\ \E image \in Images :
          /\ script = "new_gradio" => image # "bad"
          /\ upload' = image
          /\ result' = parse_business_card(script, llm, image, world)
    /\ UNCHANGED <<script, world, phase, exitCode, llm, conversation, turn,
                   turns>>

\* ollama2.py from its first line to its last.
ollama2_run ==
    /\ script = "ollama2" /\ phase = "boot"
    /\ result' = ollama2_script(world.exists, world.reply)
    /\ Exit(IF result'.raised THEN 1 ELSE 0)
    /\ UNCHANGED <<script, world, llm, upload, conversation, turn, turns>>

\* llama_cli.py, moondream_cli.py, module level: sys.exit(1) without the
\* model files or when loading raises.
cli_load ==
    /\ script \in CLIs /\ phase = "boot"
    /\ llm' = ModelLoads
    /\ IF ModelLoads THEN phase' = "main" /\ exitCode' = exitCode
       ELSE Exit(1)
    /\ UNCHANGED <<script, world, upload, result, conversation, turn, turns>>

\* main() of the CLIs.
cli_main ==
    /\ script \in CLIs /\ phase = "main"
    /\ LET m == main(script, world.argv, world.exists)
       IN  CASE m.do = "usage" -> Exit(1) /\ result' = result
             [] m.do = "missing" -> Exit(1) /\ result' = result
             [] m.do = "chat" ->
                  phase' = "repl" /\ exitCode' = exitCode /\ result' = result
             [] m.do = "query" ->
                  /\ result' = process_query(script, m.image_path, world.loads,
                                             world.backend)
                  /\ Exit(IF result'.raised THEN 130 ELSE 0)
    /\ UNCHANGED <<script, world, llm, upload, conversation, turn, turns>>

\* What one REPL iteration can meet.
TurnInputs ==
    {[event |-> e, line |-> <<>>, exists |-> FALSE, loads |-> FALSE,
      backend |-> [call |-> "unused"]] : e \in {"eof", "interrupt"}}
    \cup {[event |-> "line", line |-> l, exists |-> f[1], loads |-> f[2],
           backend |-> b] :
             l \in Lines, b \in ChatBackends,
             f \in {<<FALSE, FALSE>>, <<TRUE, FALSE>>, <<TRUE, TRUE>>}}

\* One iteration of the loop of chat_mode.
ChatTurn ==
    /\ script \in CLIs /\ phase = "repl" /\ turns < MaxTurns
    /\ \E in \in TurnInputs :
          LET r == chat_turn(script, conversation, in)
          IN  /\ conversation' = r.conversation
              /\ turn' = r.turn
              /\ IF r.running THEN phase' = "repl" /\ exitCode' = exitCode
                 ELSE Exit(0)
    /\ turns' = turns + 1
    /\ UNCHANGED <<script, world, llm, upload, result>>

Next ==
    \/ gradio_app_main
    \/ new_gradio_main
    \/ ollama_Gradio_main
    \/ ollama_moondream_main
    \/ Upload
    \/ ollama2_run
    \/ cli_load
    \/ cli_main
    \/ ChatTurn

Spec == Init /\ [][Next]_vars

(***************************************************************************)
(* Properties                                                              *)
(***************************************************************************)
\* The content of the model's reply in this world.
Response == Content(world.reply)

\* The last upload got a reply with content, so the repair pass ran.
ReachedParse ==
    /\ script \in Variants /\ phase = "serving"
    /\ result.infCalls = 1 /\ HasContent(world.reply)

\* The upload returned a failure value after the repair pass ran.
ParseFailed ==
    ReachedParse /\ result.site \in {"parse_error", "structuring_error"}

\* The returned mapping has the text field k, holding exactly s.
HasText(k, s) ==
    /\ IsDict(result.ret) /\ HasKey(result.ret.m, k)
    /\ Get(result.ret.m, k) = JStr(s)

\* C1: whenever parse_business_card returns a failure value because the
\* reply could not be turned into a JSON object, the failure value has a
\* raw_output field from which the reply's text (less surrounding
\* whitespace) can be read back.
C1_FailureKeepsRawOutput ==
    ParseFailed =>
        /\ IsDict(result.ret) /\ HasKey(result.ret.m, K_raw_output)
        /\ Get(result.ret.m, K_raw_output).t = "str"
        /\ Contains(Get(result.ret.m, K_raw_output).s, Strip(Response))

\* s has no '{' followed, somewhere later, by a '}'.
NoBracePair(s) ==
    ~\E i, j \in 1 .. Len(s) : i < j /\ s[i] = "{" /\ s[j] = "}"

\* C2: for a reply with no '{' ... '}' pair, the result is a failure value
\* whose raw_output is the reply with only leading and trailing whitespace
\* removed.
C2_NoBracePairGivesRawOutput ==
    (ReachedParse /\ NoBracePair(Response)) =>
        /\ result.site = "parse_error"
        /\ HasText(K_raw_output, Strip(Response))

\* Opening fences, with the json tag or without a tag.
OpeningFences == {FenceJson, FenceJson \o <<"\n">>, Fence, Fence \o <<"\n">>}

ClosingFences == {Fence, <<"\n">> \o Fence, <<"\n">> \o Fence \o <<"\n">>}

\* The reply is a JSON object between an opening and a closing fence.
FencedObject ==
    /\ world.reply.kind = "wrapped"
    /\ world.reply.val \in ObjectValues
    /\ world.reply.pre \in OpeningFences
    /\ world.reply.post \in ClosingFences

\* The repair pass produced the value v.
Parsed(v) == result.parsed.bound /\ PyEq(result.parsed.val, v)

\* C3: for a JSON object between a leading fence (tagged or not) and a
\* trailing fence, the repair pass of every variant yields the object the
\* fence-free interior stands for.
C3_FencedObjectIsParsed ==
    (ReachedParse /\ FencedObject) => Parsed(world.reply.val)

\* The reply is prose, a JSON object, prose; the prose has no brace and no
\* fence.
ObjectInProse ==
    /\ world.reply.kind = "wrapped"
    /\ world.reply.val \in ObjectValues
    /\ world.reply.pre \in {<<>>, ProseBefore}
    /\ world.reply.post \in {<<>>, ProseAfter}

\* C4: for prose + JSON object + prose the repair pass of every variant
\* yields exactly the object, the prose discarded.
C4_ProseAroundObjectDiscarded ==
    (ReachedParse /\ ObjectInProse) => Parsed(world.reply.val)

\* The reply is valid JSON that is not an object, with at most whitespace
\* around it.
BareNonObject ==
    /\ world.reply.kind = "wrapped"
    /\ world.reply.val \in NonObjectValues
    /\ world.reply.pre \in {<<>>, <<" ", "\n">>}
    /\ world.reply.post \in {<<>>, <<"\n">>}

\* C5: a reply that is valid JSON but not an object gives a parse-failure
\* value with the raw text attached, never the non-object value itself.
C5_NonObjectIsParseFailure ==
    (ReachedParse /\ BareNonObject) =>
        /\ result.site # "parsed"
        /\ IsDict(result.ret) /\ HasKey(result.ret.m, K_error)
        /\ HasKey(result.ret.m, K_raw_output)

\* The last upload returned a mapping from the success return statement,
\* for a reply built around a JSON object.
ObjectReturned ==
    /\ ReachedParse /\ result.site = "parsed" /\ IsDict(result.ret)
    /\ world.reply.kind = "wrapped" /\ world.reply.val \in ObjectValues

\* The key a variant adds to a successful result.
AddedOnSuccess(variant) ==
    IF variant = "new_gradio" THEN {K_raw_ocr_text_} ELSE {}

\* C6 (as stated): a successful result has exactly the keys the model
\* produced; no diagnostic field is added to it.
C6_SuccessHasModelKeysOnly ==
    ObjectReturned => KeySet(result.ret.m) = KeySet(world.reply.val.m)

\* C6 (amended): a successful result has the keys the model produced, each
\* with the model's value, and nothing else, except that new_gradio sets
\* "_raw_ocr_text" to the OCR text on every success.
C6_SuccessKeysPlusOcrText ==
    /\ ObjectReturned =>
          /\ KeySet(result.ret.m)
                = KeySet(world.reply.val.m) \cup AddedOnSuccess(script)
          /\ \A k \in KeySet(world.reply.val.m) \ AddedOnSuccess(script) :
                PyEq(Get(result.ret.m, k), Get(world.reply.val.m, k))
          /\ script = "new_gradio" =>
                Get(result.ret.m, K_raw_ocr_text_) = JStr(Strip(world.ocr.text))
    /\ (ReachedParse /\ result.site = "parsed" /\ IsDict(result.ret)
           /\ world.reply \in RawReplies) =>
          KeySet(result.ret.m) = AddedOnSuccess(script)

\* new_gradio returned the two keys of {"name": "Jane Doe", "title": null}
\* and "_raw_ocr_text".
C6_Witness ==
    /\ ObjectReturned /\ script = "new_gradio"
    /\ world.reply.val = ObjJaneDoe
    /\ KeySet(result.ret.m) = {K_name, K_title, K_raw_ocr_text_}

Alternates(conv) ==
    \A i \in 1 .. Len(conv) :
        conv[i].role = IF i % 2 = 1 THEN "user" ELSE "assistant"

\* C7: in chat_mode the conversation alternates user, assistant, user, ...
\* after any sequence of REPL iterations.
C7_RolesAlternate == script \in CLIs => Alternates(conversation)

\* The last handler called the inference backend and the call failed.
BackendFailed ==
    \/ /\ script \in Variants /\ phase = "serving"
       /\ result.infCalls = 1 /\ ~HasContent(world.reply)
    \/ /\ script = "ollama2" /\ phase = "exited"
       /\ result.infCalls = 1 /\ world.reply.kind \in {"raise", "badshape"}
    \/ /\ script \in CLIs /\ phase = "exited" /\ result.infCalls = 1
       /\ world.backend.call = "raise"
    \/ /\ script \in CLIs /\ turn.infCalls = 1
       /\ turn.backend.call = "raise"

\* C8: a failing backend call is caught where it is made: no exception
\* leaves the handler, and the Gradio variants return a mapping with an
\* "error" field.
C8_BackendFailureIsCaught ==
    BackendFailed =>
        /\ ~result.raised
        /\ script \in Variants =>
              IsDict(result.ret) /\ HasKey(result.ret.m, K_error)

\* An upload was handled, or a line was read at the REPL prompt.
UploadHandled == script \in Variants /\ phase = "serving" /\ result.site # "none"

LineRead == script \in CLIs /\ turn.event = "line"

\* C9 (as stated): each user action makes exactly one blocking call into an
\* external engine or server.
C9_ExactlyOneBlockingCall ==
    /\ UploadHandled => result.infCalls + result.ocrCalls = 1
    /\ LineRead => turn.infCalls = 1

\* The uploaded image gets as far as the model.
UploadReachesModel ==
    /\ upload = "ok"
    /\ script \in {"gradio_app", "new_gradio"} => llm
    /\ script = "new_gradio" =>
          /\ world.ocr.kind = "text"
          /\ Strip(world.ocr.text) # <<>>
          /\ ~Contains(world.ocr.text, OcrErrorPrefix)

\* The line read gets as far as the model.
LineReachesModel ==
    /\ Strip(turn.line) # <<>>
    /\ Lower(Strip(turn.line)) \notin ExitCommands
    /\ turn.outcome # "skipped_image"

\* C9 (amended): each user action makes at most one blocking inference
\* call: one when the input gets as far as the model, none otherwise; and
\* new_gradio makes one blocking OCR call for every upload with an image.
C9_AtMostOneInferenceCall ==
    /\ UploadHandled =>
          /\ result.infCalls = IF UploadReachesModel THEN 1 ELSE 0
          /\ result.ocrCalls
                = IF script = "new_gradio" /\ upload # "none" THEN 1 ELSE 0
    /\ LineRead => turn.infCalls = IF LineReachesModel THEN 1 ELSE 0

\* new_gradio handled an upload with one OCR call and one inference call.
C9_Witness ==
    /\ UploadHandled /\ script = "new_gradio"
    /\ result.ocrCalls = 1 /\ result.infCalls = 1

\* C10: a line that, trimmed and lower-cased, is exit, quit or q ends the
\* loop at once: nothing is appended to the conversation and no inference
\* call is made for it.
C10_ExitCommandEndsSession ==
    [][(/\ turns' = turns + 1
        /\ turn'.event = "line"
        /\ Lower(Strip(turn'.line)) \in ExitCommands)
       => (/\ phase' = "exited"
           /\ conversation' = conversation
           /\ turn'.infCalls = 0)]_vars

\* " EXIT " was typed after an earlier exchange and ended the session.
C10_Witness ==
    /\ script \in CLIs /\ phase = "exited"
    /\ turn.outcome = "exit"
    /\ turn.line = <<" ", "E", "X", "I", "T", " ">>
    /\ Len(conversation) > 0

\* C11: the REPL runs only until EOF or interrupt: an iteration in which
\* input() raises EOFError or KeyboardInterrupt is the last one, so after
\* either event the loop has ended.  (A finished stdin raises EOFError at
\* every later input(); a loop that survives one EOF never ends.)
C11_ReplEndsAtEofOrInterrupt ==
    (script \in CLIs /\ turn.event \in {"eof", "interrupt"})
        => phase = "exited"

\* A prerequisite of the running script is missing at startup: a model file,
\* a model that loads, or (new_gradio) the tesseract binary.
MissingPrerequisite ==
    \/ script \in {"gradio_app", "new_gradio"} \cup CLIs /\ ~ModelLoads
    \/ script = "new_gradio" /\ ~world.tesseract

\* C12: a missing prerequisite is fatal at startup: the process exits with a
\* nonzero code (1 in the CLIs) and neither the web form nor the REPL is
\* started.
C12_MissingPrerequisiteIsFatal ==
    (MissingPrerequisite /\ phase # "boot") =>
        /\ phase = "exited"
        /\ exitCode > 0
        /\ script \in CLIs => exitCode = 1

\* The command line is a one-shot query "prompt - path" whose path names no
\* file, and main() has run.
OneShotMissingFile ==
    /\ script \in CLIs /\ llm /\ phase \notin {"boot", "main"}
    /\ world.argv # <<>> /\ Lower(world.argv) # ChatCommand
    /\ ParseLine(script, world.argv).sep
    /\ ~world.exists

\* REPL inputs "prompt - path" whose path names no file.
MissingFileLines ==
    {in \in TurnInputs :
        /\ in.event = "line" /\ ~in.exists
        /\ ParseLine(script, Strip(in.line)).sep}

\* C13: when the text after " - " names no file, both CLIs, in main and in
\* chat_mode, go on without an image: the program does not exit over it and
\* the prompt part goes to the model as a text-only query.
C13_MissingFileFallsBackToText ==
    /\ OneShotMissingFile =>
          /\ result.infCalls = 1
          /\ result.site # "image_error"
          /\ exitCode # 1
    /\ (script \in CLIs /\ phase = "repl") =>
          \A in \in MissingFileLines :
             LET r == chat_turn(script, conversation, in)
             IN  /\ r.turn.infCalls = 1
                 /\ r.turn.outcome \notin {"exit", "skipped_image"}
                 /\ Len(r.conversation) > Len(conversation)
                 /\ r.conversation[Len(conversation) + 1]
                       = UserMessage(ParseLine(script, Strip(in.line)).prompt,
                                     <<>>)

\* The reply is {"name": "A", "note": "uses a } brace"}, alone or with
\* brace-free prose around it, and new_gradio's repair pass has run on it.
BraceInStringReply ==
    /\ ReachedParse /\ script = "new_gradio"
    /\ world.reply.kind = "wrapped"
    /\ world.reply.val = ObjBraceNote
    /\ world.reply.pre \in {<<>>, ProseBefore}
    /\ world.reply.post \in {<<>>, ProseAfter}

\* C14 (as stated): for an object whose string value holds a '}' before the
\* closing brace, the first-'{'/last-'}' pass does not yield the full,
\* correct object.
C14_BraceInStringNotParsed ==
    BraceInStringReply => ~Parsed(ObjBraceNote)

\* C14 (amended): for such an object the candidate runs to the last '}',
\* which is the closing brace, so the candidate is the whole object text
\* and the pass yields the full object.
C14_BraceInStringIsParsed ==
    BraceInStringReply =>
        /\ result.text = Bound(json_dumps(ObjBraceNote))
        /\ Parsed(ObjBraceNote)
        /\ result.site = "parsed"

\* new_gradio parsed the object out of the prose around it.
C14_Witness ==
    /\ BraceInStringReply
    /\ world.reply.pre = ProseBefore /\ world.reply.post = ProseAfter
    /\ Parsed(ObjBraceNote)
    /\ HasKey(result.ret.m, K_note)

\* C15: round trip: when the repair pass succeeds on a reply and yields the
\* object O, the repair pass run on json.dumps(O) succeeds and yields an
\* object equal to O.
C15_RoundTripStable ==
    (ReachedParse /\ result.parsed.bound /\ IsDict(result.parsed.val)) =>
        LET again == RepairPass(script, json_dumps(result.parsed.val))
        IN  again.ok /\ PyEq(again.parsed, result.parsed.val)

\* The returned value is a mapping that reports a failure.
ReportsError == IsDict(result.ret) /\ HasKey(result.ret.m, K_error)

\* process_query has run in one-shot mode.
QueryRun == script \in CLIs /\ phase = "exited" /\ result.site # "none"

\* The backend call of the last REPL iteration failed.
TurnCallFailed ==
    /\ turn.infCalls > 0
    /\ \/ turn.backend.call = "raise"
       \/ turn.backend.call = "stream" /\ turn.backend.end = "exception"

\* C16: no failure is retried: one parse_business_card call, one
\* process_query call and one REPL iteration call the backend at most once,
\* exactly once when the call or the parse fails, and the failure is what
\* the request reports (its error value, its error outcome).
C16_NoRetryOnFailure ==
    /\ UploadHandled =>
          /\ result.infCalls <= 1
          /\ (result.infCalls > 0 /\ ~HasContent(world.reply)) =>
                /\ result.infCalls = 1
                /\ result.site \in {"inference_error", "structuring_error"}
                /\ ReportsError
          /\ (ReachedParse /\ ~RepairPass(script, Response).ok) =>
                /\ result.infCalls = 1
                /\ result.site = "parse_error"
                /\ ReportsError
    /\ QueryRun =>
          /\ result.infCalls <= 1
          /\ (result.infCalls > 0 /\ world.backend.call = "raise") =>
                result.infCalls = 1 /\ result.site = "inference_error"
    /\ LineRead =>
          /\ turn.infCalls <= 1
          /\ TurnCallFailed => turn.infCalls = 1 /\ turn.outcome = "error"

\* ollama_Gradio's one call failed and the upload returned the error.
C16_Witness ==
    /\ UploadHandled /\ script = "ollama_Gradio"
    /\ ~HasContent(world.reply)
    /\ result.infCalls = 1 /\ result.site = "inference_error"
    /\ ReportsError

\* a is a prefix of b
IsPrefix(a, b) == Len(a) <= Len(b) /\ SubSeq(b, 1, Len(a)) = a

\* C17: the conversation of chat_mode is append-only: every step leaves the
\* earlier list as a prefix of the later one, and an inference call is
\* handed the whole history so far, ending with the new user message.
C17_HistoryIsAppendOnly ==
    [][(script \in CLIs) =>
          (/\ IsPrefix(conversation, conversation')
           /\ (turns' = turns + 1 /\ turn'.infCalls > 0) =>
                 (/\ Len(turn'.messages) = Len(conversation) + 1
                  /\ IsPrefix(conversation, turn'.messages)
                  /\ turn'.messages[Len(conversation) + 1].role = "user"
                  /\ turn'.messages[Len(conversation) + 1].text = turn'.prompt
                  /\ IsPrefix(turn'.messages, conversation')))]_vars

\* A second exchange was completed on top of a first: the second call was
\* handed the first exchange and the new user message.
C17_Witness ==
    /\ script \in CLIs /\ turns = 2
    /\ turn.outcome = "completed"
    /\ Len(turn.messages) = 3
    /\ Len(conversation) = 4

\* The content fragments of a stream's chunks, joined in arrival order
\* (a chunk without choices or without content adds nothing).
RECURSIVE Fragments(_)
Fragments(chunks) ==
    IF chunks = <<>> THEN <<>>
    ELSE (IF Head(chunks).kind = "delta" THEN Head(chunks).content ELSE <<>>)
         \o Fragments(Tail(chunks))

\* C18: when the streamed call of a REPL iteration completes, exactly one
\* assistant message is appended after the user message, and its content
\* is the fragments of the stream joined in arrival order; an iteration
\* whose call does not complete appends no assistant message.
C18_AssistantIsJoinedStream ==
    [][(script \in CLIs /\ turns' = turns + 1) =>
          IF turn'.outcome = "completed"
          THEN /\ turn'.backend.call = "stream"
               /\ conversation'
                     = Append(turn'.messages,
                              [role |-> "assistant",
                               text |-> Fragments(turn'.backend.chunks),
                               image |-> <<>>])
          ELSE conversation' \in {conversation, turn'.messages}]_vars

\* "He", "", a chunk without choices, "y": the assistant said "Hey".
C18_Witness ==
    /\ script \in CLIs /\ turn.outcome = "completed"
    /\ turn.backend = StreamHey
    /\ conversation[Len(conversation)]
          = [role |-> "assistant", text |-> <<"H", "e", "y">>, image |-> <<>>]

\* The except clause that ended the call reads the variable holding the
\* model output (json_text, text) for its diagnostic.
ReadsModelOutput(o) == o.site = "parse_error"

TaggedFenceReply ==
    /\ world.reply.kind = "wrapped"
    /\ world.reply.pre \in {FenceJson, FenceJson \o <<"\n">>}
    /\ world.reply.post \in {<<>>, <<"\n">>} \cup ClosingFences

\* C20: in gradio_app, ollama_Gradio and ollama_moondream the fence cleanup
\* of a reply that starts with the tagged fence removes fence characters and
\* surrounding whitespace only: the text handed to json.loads is the whole
\* payload, closing fence or not.
C20_FenceCleanupKeepsPayload ==
    (ReachedParse /\ script # "new_gradio" /\ TaggedFenceReply) =>
        result.text = Bound(json_dumps(world.reply.val))

\* REPL inputs that are skipped: a blank line, or a line "prompt - path"
\* whose file exists and fails to load or encode.
SkippedLines ==
    {in \in TurnInputs :
        /\ in.event = "line"
        /\ \/ Strip(in.line) = <<>>
           \/ /\ ~IsExitCommand(Strip(in.line))
              /\ ParseLine(script, Strip(in.line)).sep
              /\ in.exists /\ ~in.loads}

\* C21: in chat_mode a skipped turn (a blank line, or a line whose existing
\* image file fails to load) leaves the conversation as it was and makes no
\* inference call, and the loop goes on to the next prompt.
C21_SkippedTurnChangesNothing ==
    /\ []((script \in CLIs /\ phase = "repl") =>
             \A in \in SkippedLines :
                LET r == chat_turn(script, conversation, in)
                IN  /\ r.conversation = conversation
                    /\ r.running
                    /\ r.turn.infCalls = 0
                    /\ r.turn.messages = <<>>
                    /\ r.turn.outcome \in {"skipped_empty", "skipped_image"})
    /\ [][(/\ script \in CLIs /\ turns' = turns + 1
           /\ turn'.outcome \in {"skipped_empty", "skipped_image"})
          => (/\ conversation' = conversation
              /\ turn'.infCalls = 0
              /\ phase' = "repl")]_vars

\* After a first exchange, "hi - c" named a file that would not load: the
\* turn was skipped and the loop is at the prompt again.
C21_Witness ==
    /\ script \in CLIs /\ phase = "repl"
    /\ turn.outcome = "skipped_image"
    /\ turn.line = L_hi_c
    /\ turn.infCalls = 0
    /\ Len(conversation) = 2

====
